---- MODULE Spec2Model ----
(***************************************************************************)
(* Model of agent-mail-guard: the envelope orchestrator sanitize_email,    *)
(* the batch wrapper sanitize_emails and the CLI entry point main          *)
(* (sanitizer.py), and the benchmark loop run_benchmark                    *)
(* (benchmarks/run_benchmark.py).                                          *)
(*                                                                         *)
(* Text is a sequence of symbols.  A symbol stands for one character; the  *)
(* symbols with a role in sanitization are                                 *)
(*   "NL"   the newline character                                          *)
(*   "<" ">" the tag delimiters                                            *)
(*   "ZW"   a zero-width (invisible) code point such as U+200B             *)
(*   "FLT" "FGT" "FA"  the full-width forms of "<", ">" and "a"            *)
(*   "IMG"  a markdown image construct, "B64" a long base64 run,           *)
(*   "RED"  the redaction marker.                                          *)
(* The primitives imported from sanitize_core are not part of the source   *)
(* tree; they are modelled from the specification (sections 4.1 - 4.9).    *)
(***************************************************************************)
EXTENDS Integers, Sequences, FiniteSets, TLC

VARIABLES
    email_data,      \* sanitize_email: the argument of a direct call
    call_det,        \* what the detectors returned (or which one raised) in that call
    call_ret,        \* what the call returned, or that it raised
    stdin,           \* main: the JSON document on standard input
    pc,              \* main: position in the function
    data,            \* main: json.loads(raw)
    idx,             \* sanitize_emails: next element of the comprehension
    acc,             \* sanitize_emails: results collected so far
    dets,            \* the detector outcomes of the calls made so far
    result,          \* main: the value of `result`
    stdout,          \* what main printed to standard output
    stderr,          \* what main (or the interpreter) printed to standard error
    exit_status,     \* the process's exit status, -1 while it runs
    samples,         \* run_benchmark: the two sample kinds the list alternates
    bpc,             \* run_benchmark: position in the function
    bi,              \* run_benchmark: number of samples processed
    results          \* run_benchmark: the results dict

vars == <<email_data, call_det, call_ret, stdin, pc, data, idx, acc, dets,
          result, stdout, stderr, exit_status, samples, bpc, bi, results>>

emailVars == <<email_data, call_det, call_ret>>
cliVars   == <<stdin, pc, data, idx, acc, dets, result, stdout, stderr, exit_status>>
benchVars == <<samples, bpc, bi, results>>

----------------------------------------------------------------------------
(* Bounds of the model *)

\* longest flag list a detector returns in SpecFlags
MaxFlagLen == 2
\* longest JSON array on standard input
MaxBatch == 2
\* number of samples run_benchmark is given
NumSamples == 504

----------------------------------------------------------------------------
(* Sequence helpers *)

Rep(c, n) == [i \in 1..n |-> c]

Range(s) == {s[i] : i \in 1..Len(s)}

Min2(a, b) == IF a <= b THEN a ELSE b

MinOf(S) == CHOOSE x \in S : \A y \in S : x <= y

MaxOf(S) == CHOOSE x \in S : \A y \in S : x >= y

\* the positions of s, in order
Indices(s) == [i \in 1..Len(s) |-> i]

\* the elements of s at the positions idxs
At(s, idxs) == [k \in 1..Len(idxs) |-> s[idxs[k]]]

\* s[:n]
Slice(s, n) == SubSeq(s, 1, Min2(Len(s), n))

----------------------------------------------------------------------------
(* sanitize_core, modelled from the specification *)

MAX_BODY_LENGTH == 2000

INVISIBLE == {"ZW"}

\* 4.1: removes the invisible code points, keeps whitespace and newlines
remove_invisible_unicode(text) == SelectSeq(text, LAMBDA c : c \notin INVISIBLE)

Fold(c) ==
    CASE c = "FLT" -> "<"
      [] c = "FGT" -> ">"
      [] c = "FA"  -> "a"
      [] OTHER     -> c

\* 4.2: compatibility normalization, folds full-width forms to ASCII
normalize_unicode(text) == [i \in 1..Len(text) |-> Fold(text[i])]

\* 4.3: removes tags with what they enclose between "<" and ">"; an unclosed
\* tag drops the rest; the output holds no "<" and no ">"
strip_html(text) ==
    LET delims == {j \in 1..Len(text) : text[j] \in {"<", ">"}}
        Outside(i) ==
            LET before == {j \in delims : j < i}
            IN  before = {} \/ text[MaxOf(before)] = ">"
    IN  At(text, SelectSeq(Indices(text),
                           LAMBDA i : text[i] \notin {"<", ">"} /\ Outside(i)))

\* 4.4: a long base64 run is replaced by the redaction marker
strip_base64_blobs(text) ==
    [i \in 1..Len(text) |-> IF text[i] = "B64" THEN "RED" ELSE text[i]]

\* 4.5: markdown image constructs are removed
strip_markdown_images(text) == SelectSeq(text, LAMBDA c : c # "IMG")

\* 4.7: the stages in order, then truncation to max_len as the last step.
\* `flags` is what the pattern detector (4.6) returned for this text.
sanitize_text(text, max_len, flags) ==
    LET t1 == remove_invisible_unicode(text)
        t2 == normalize_unicode(t1)
        t3 == strip_html(t2)
        t4 == strip_base64_blobs(t3)
        t5 == strip_markdown_images(t4)
    IN  <<Slice(t5, max_len), flags, Len(text)>>

\* 4.9: the allow-list
KNOWN_SENDERS == {<<"k">>}

classify_sender(sender) == IF sender \in KNOWN_SENDERS THEN "known" ELSE "unknown"

----------------------------------------------------------------------------
(* JSON values: an envelope is an object whose keys hold a string, null, or
   are missing; anything else that can stand where an envelope is expected
   is a scalar *)

KEYS == {"sender", "subject", "date", "body"}

Str(s) == [t |-> "str", s |-> s]

Null == [t |-> "null", s |-> <<>>]

Absent == [t |-> "absent", s |-> <<>>]

Envelope(sender, subject, date, body) ==
    [kind |-> "object",
     obj  |-> [k \in KEYS |-> CASE k = "sender"  -> sender
                                [] k = "subject" -> subject
                                [] k = "date"    -> date
                                [] OTHER         -> body]]

Scalar == [kind |-> "scalar", obj |-> [k \in KEYS |-> Absent]]

\* every field read from the "subject" key
get_str_subject_key(email, key) ==
    CASE email.obj["subject"].t = "str"  -> email.obj["subject"].s
      [] email.obj["subject"].t = "null" -> <<"N", "o", "n", "e">>
      [] OTHER                           -> <<>>

\* str(email_data.get(key, ""))
get_str(email, key) ==
    CASE email.obj[key].t = "str"  -> email.obj[key].s
      [] email.obj[key].t = "null" -> <<"N", "o", "n", "e">>
      [] OTHER                     -> <<>>

\* a JSON document: invalid text, or a top-level scalar, object or array
Doc(kind, obj, items) == [kind |-> kind, obj |-> obj, items |-> items]

NoDoc == Doc("none", Scalar.obj, <<>>)

----------------------------------------------------------------------------
(* Detector outcomes: the flag lists the subject pipeline, the body pipeline
   and the cross-field correlator return in one call of sanitize_email, or
   the callee that raises *)

FLAGS == {"direct_override", "role_play"}

FlagSeqs(n) == UNION {[1..k -> FLAGS] : k \in 0..n}

FAULTS == {"subject", "date", "sender", "body", "cross", "classify"}

Det(sf, bf, cf, fault) == [subject |-> sf, body |-> bf, cross |-> cf, fault |-> fault]

NoDet == Det(<<>>, <<>>, <<>>, "none")

----------------------------------------------------------------------------
(* sanitizer.py: sanitize_email *)

\* list(dict.fromkeys(xs)): the first occurrence of every element, in order
dict_fromkeys(xs) ==
    At(xs, SelectSeq(Indices(xs), LAMBDA i : \A j \in 1..(i - 1) : xs[j] # xs[i]))

merge_flags_no_dedup(subject_flags, body_flags, cross_flags) ==
    subject_flags \o body_flags \o cross_flags

merge_flags(subject_flags, body_flags, cross_flags) ==
    dict_fromkeys(subject_flags \o body_flags \o cross_flags)

date_light_normalized(date_raw) ==
    normalize_unicode(remove_invisible_unicode(strip_html(date_raw)))

date_light(date_raw) == strip_html(date_raw)

sender_light(sender_raw) ==
    normalize_unicode(remove_invisible_unicode(strip_html(sender_raw)))

summary_level_of(sender_tier) == IF sender_tier = "known" THEN "full" ELSE "minimal"

PREVIEW_LENGTH == 200

SUBJECT_MAX_LENGTH == 500

\* body_clean.split("\n")[0]
first_line(text) ==
    LET nls == {i \in 1..Len(text) : text[i] = "NL"}
    IN  IF nls = {} THEN text ELSE SubSeq(text, 1, MinOf(nls) - 1)

body_output_uncut(summary_level, body_clean) ==
    IF summary_level = "minimal"
    THEN (IF body_clean # <<>> THEN first_line(body_clean) ELSE <<>>)
    ELSE body_clean

body_output(summary_level, body_clean) ==
    IF summary_level = "minimal"
    THEN (IF body_clean # <<>> THEN Slice(first_line(body_clean), PREVIEW_LENGTH) ELSE <<>>)
    ELSE body_clean

truncated_of_inclusive(original_length) == original_length >= MAX_BODY_LENGTH

truncated_of(original_length) == original_length > MAX_BODY_LENGTH

suspicious_of_several(all_flags) == Len(all_flags) > 1

suspicious_of(all_flags) == Len(all_flags) > 0

NoEnvelope(status, exc) ==
    [status |-> status, exc |-> exc,
     sender |-> <<>>, subject |-> <<>>, date |-> <<>>, body_clean |-> <<>>,
     body_length_original |-> 0, truncated |-> FALSE, suspicious |-> FALSE,
     flags |-> <<>>, sender_tier |-> "", summary_level |-> ""]

NoRet == NoEnvelope("none", "")

\* an exception of a callee is not caught: it leaves sanitize_email
sanitize_email(email, det) ==
    IF email.kind # "object" THEN NoEnvelope("raised", "AttributeError")
    ELSE IF det.fault # "none" THEN NoEnvelope("raised", "Exception")
    ELSE
    LET sender_raw  == get_str(email, "sender")
        subject_raw == get_str(email, "subject")
        date_raw    == get_str(email, "date")
        body_raw    == get_str(email, "body")
        subject_res == sanitize_text(subject_raw, SUBJECT_MAX_LENGTH, det.subject)
        subject_clean == subject_res[1]
        subject_flags == subject_res[2]
        date_clean   == date_light(date_raw)
        sender_clean == sender_light(sender_raw)
        body_res     == sanitize_text(body_raw, MAX_BODY_LENGTH, det.body)
        body_clean   == body_res[1]
        body_flags   == body_res[2]
        original_length == body_res[3]
        cross_flags  == det.cross
        all_flags    == merge_flags(subject_flags, body_flags, cross_flags)
        sender_tier  == classify_sender(sender_clean)
        summary_level == summary_level_of(sender_tier)
    IN  [status |-> "ok", exc |-> "",
         sender |-> sender_clean,
         subject |-> subject_clean,
         date |-> date_clean,
         body_clean |-> body_output(summary_level, body_clean),
         body_length_original |-> original_length,
         truncated |-> truncated_of(original_length),
         suspicious |-> suspicious_of(all_flags),
         flags |-> all_flags,
         sender_tier |-> sender_tier,
         summary_level |-> summary_level]

----------------------------------------------------------------------------
(* Inputs of a direct call of sanitize_email *)

SENDERS ==
    {Str(<<"k">>), Str(<<"u">>), Str(<<"ZW", "k">>),
     Str(<<"<", "b", ">", "k">>), Str(<<"FLT", "b", "FGT", "k">>)}

SUBJECTS == {Absent, Str(<<"k">>), Str(<<"s", "IMG">>), Str(Rep("s", MAX_BODY_LENGTH + 1))}

DATES == {Null, Str(<<"<", "b", ">", "d">>), Str(<<"ZW", "d", "FA", "IMG">>)}

BODIES ==
    {Absent,
     Str(<<"ZW">>),
     Str(<<"a", "NL", "b">>),
     Str(<<"NL", "a">>),
     Str(<<"<", "b", ">", "a", "ZW", "IMG", "B64", "FA">>),
     Str(Rep("a", PREVIEW_LENGTH)),
     Str(Rep("a", PREVIEW_LENGTH + 1) \o <<"NL", "b">>),
     Str(Rep("a", MAX_BODY_LENGTH)),
     Str(Rep("a", MAX_BODY_LENGTH + 1))}

ENVELOPES ==
    {Envelope(s, j, d, b) : s \in SENDERS, j \in SUBJECTS, d \in DATES, b \in BODIES}

\* detector outcomes of SpecEmail: short flag lists, or one callee raising
DETS_EMAIL ==
    {Det(sf, bf, cf, "none") : sf \in FlagSeqs(1), bf \in FlagSeqs(1), cf \in FlagSeqs(1)}
    \cup {Det(<<>>, <<>>, <<>>, f) : f \in FAULTS}

\* detector outcomes of SpecFlags: every flag list up to MaxFlagLen
DETS_FLAGS ==
    {Det(sf, bf, cf, "none") :
        sf \in FlagSeqs(MaxFlagLen), bf \in FlagSeqs(MaxFlagLen), cf \in FlagSeqs(MaxFlagLen)}

ENVELOPES_FLAGS ==
    {Envelope(s, Str(<<"s">>), Absent, Str(<<"a", "NL", "b">>)) : s \in {Str(<<"k">>), Str(<<"u">>)}}

CliIdle ==
    /\ stdin = NoDoc /\ pc = "idle" /\ data = NoDoc /\ idx = 0 /\ acc = <<>>
    /\ dets = <<>> /\ result = <<>> /\ stdout = <<>> /\ stderr = <<>> /\ exit_status = -1

BenchIdle == samples = <<>> /\ bpc = "idle" /\ bi = 0 /\ results = <<>>

\* one call of sanitize_email(email_data), the detectors answering with det
Call(D) ==
    /\ call_ret.status = "none"
    /\ \E det \in D :
          /\ call_det' = det
          /\ call_ret' = sanitize_email(email_data, det)
    /\ UNCHANGED <<email_data, cliVars, benchVars>>

CallSanitizeEmail == Call(DETS_EMAIL)

InitEmail ==
    /\ email_data \in ENVELOPES
    /\ call_det = NoDet
    /\ call_ret = NoRet
    /\ CliIdle /\ BenchIdle

NextEmail == CallSanitizeEmail

SpecEmail == InitEmail /\ [][NextEmail]_vars

CallWithFlagLists == Call(DETS_FLAGS)

InitFlags ==
    /\ email_data \in ENVELOPES_FLAGS
    /\ call_det = NoDet
    /\ call_ret = NoRet
    /\ CliIdle /\ BenchIdle

NextFlags == CallWithFlagLists

SpecFlags == InitFlags /\ [][NextFlags]_vars

----------------------------------------------------------------------------
(* sanitizer.py: main and sanitize_emails *)

ELEMENTS ==
    {Scalar,
     Envelope(Str(<<"k">>), Str(<<"s">>), Absent, Str(<<"a", "NL", "b">>)),
     Envelope(Str(<<"u">>), Str(<<"k">>), Null, Str(<<"a", "NL", "b">>)),
     Envelope(Str(<<"u">>), Absent, Absent, Absent)}

DOCS ==
    {Doc("invalid", Scalar.obj, <<>>), Doc("scalar", Scalar.obj, <<>>)}
    \cup {Doc("object", e.obj, <<>>) : e \in ELEMENTS \ {Scalar}}
    \cup {Doc("array", Scalar.obj, items) :
             items \in UNION {[1..n -> ELEMENTS] : n \in 0..MaxBatch}}

\* detector outcomes of SpecCli
DETS_CLI ==
    {NoDet, Det(<<"role_play">>, <<>>, <<"role_play">>, "none"), Det(<<>>, <<>>, <<>>, "body")}

ErrorObject(text) == [kind |-> "error_object", text |-> text]

\* an exception nothing catches: the interpreter prints the traceback to
\* standard error and the process ends with status 1
Uncaught(exc) ==
    /\ stderr' = Append(stderr, [kind |-> "traceback", text |-> exc])
    /\ exit_status' = 1
    /\ pc' = "exit"

\* raw = sys.stdin.read(); data = json.loads(raw)
MainRead ==
    /\ pc = "start"
    /\ IF stdin.kind = "invalid"
       THEN /\ stderr' = Append(stderr, ErrorObject("Invalid JSON input"))
            /\ exit_status' = 1
            /\ pc' = "exit"
            /\ UNCHANGED data
       ELSE /\ data' = stdin
            /\ pc' = "dispatch"
            /\ UNCHANGED <<stderr, exit_status>>
    /\ UNCHANGED <<stdin, idx, acc, dets, result, stdout, emailVars, benchVars>>

\* isinstance(data, list): result = sanitize_emails(data), entered
MainDispatchList ==
    /\ pc = "dispatch" /\ data.kind = "array"
    /\ pc' = "sanitize_emails"
    /\ idx' = 1
    /\ acc' = <<>>
    /\ UNCHANGED <<stdin, data, dets, result, stdout, stderr, exit_status, emailVars, benchVars>>

\* one element of [sanitize_email(e) for e in emails]
SanitizeEmailsStep ==
    /\ pc = "sanitize_emails" /\ idx <= Len(data.items)
    /\ \E det \in DETS_CLI :
          LET r == sanitize_email(data.items[idx], det)
          IN  /\ dets' = Append(dets, det)
              /\ IF r.status = "raised"
                 THEN /\ Uncaught(r.exc)
                      /\ UNCHANGED <<idx, acc>>
                 ELSE /\ acc' = Append(acc, r)
                      /\ idx' = idx + 1
                      /\ UNCHANGED <<pc, stderr, exit_status>>
    /\ UNCHANGED <<stdin, data, result, stdout, emailVars, benchVars>>

\* the comprehension is exhausted: sanitize_emails returns the list
SanitizeEmailsReturn ==
    /\ pc = "sanitize_emails" /\ idx > Len(data.items)
    /\ result' = acc
    /\ pc' = "print"
    /\ UNCHANGED <<stdin, data, idx, acc, dets, stdout, stderr, exit_status, emailVars, benchVars>>

\* isinstance(data, dict): result = sanitize_email(data)
MainDispatchDict ==
    /\ pc = "dispatch" /\ data.kind = "object"
    /\ \E det \in DETS_CLI :
          LET r == sanitize_email([kind |-> "object", obj |-> data.obj], det)
          IN  /\ dets' = Append(dets, det)
              /\ IF r.status = "raised"
                 THEN /\ Uncaught(r.exc)
                      /\ UNCHANGED result
                 ELSE /\ result' = r
                      /\ pc' = "print"
                      /\ UNCHANGED <<stderr, exit_status>>
    /\ UNCHANGED <<stdin, data, idx, acc, stdout, emailVars, benchVars>>

\* neither a list nor a dict
MainDispatchOther ==
    /\ pc = "dispatch" /\ data.kind \notin {"array", "object"}
    /\ stderr' = Append(stderr, ErrorObject("Expected JSON object or array"))
    /\ exit_status' = 1
    /\ pc' = "exit"
    /\ UNCHANGED <<stdin, data, idx, acc, dets, result, stdout, emailVars, benchVars>>

\* print(json.dumps(result, indent=2, ensure_ascii=False)); main returns
MainPrint ==
    /\ pc = "print"
    /\ stdout' = Append(stdout, [indent |-> 2, value |-> result])
    /\ exit_status' = 0
    /\ pc' = "exit"
    /\ UNCHANGED <<stdin, data, idx, acc, dets, result, stderr, emailVars, benchVars>>

InitCli ==
    /\ stdin \in DOCS
    /\ pc = "start" /\ data = NoDoc /\ idx = 0 /\ acc = <<>>
    /\ dets = <<>> /\ result = <<>> /\ stdout = <<>> /\ stderr = <<>> /\ exit_status = -1
    /\ email_data = Scalar /\ call_det = NoDet /\ call_ret = NoRet
    /\ BenchIdle

NextCli ==
    \/ MainRead
    \/ MainDispatchList
    \/ SanitizeEmailsStep
    \/ SanitizeEmailsReturn
    \/ MainDispatchDict
    \/ MainDispatchOther
    \/ MainPrint

SpecCli == InitCli /\ [][NextCli]_vars

----------------------------------------------------------------------------
(* benchmarks/run_benchmark.py: run_benchmark and categorize_missed.
   A benchmark text is a sequence of symbols too; here a symbol is a word,
   and the words the categories look for are symbols of their own. *)

MISSED_EXAMPLES_CAP == 500

NON_ASCII == {"E_ACUTE", "ZW", "FLT", "FGT", "FA"}

\* text.lower()
Lower(text) ==
    [i \in 1..Len(text) |-> CASE text[i] = "IGNORE"   -> "ignore"
                              [] text[i] = "PREVIOUS" -> "previous"
                              [] OTHER                -> text[i]]

categorize_missed(text) ==
    LET t == Range(Lower(text))
        In(w) == w \in t
    IN  CASE In("ignore") /\ In("instruction") -> "direct_override"
          [] In("ignore") /\ In("previous") -> "direct_override"
          [] In("forget") /\ (In("instruction") \/ In("rule")) -> "direct_override"
          [] In("disregard") -> "direct_override"
          [] In("system:") \/ In("[system]") \/ In("<<sys>>") -> "system_prompt_injection"
          [] In("pretend") \/ In("act as") \/ In("you are now") -> "role_play"
          [] In("do anything now") \/ In("dan") -> "dan_jailbreak"
          [] In("base64") \/ In("encode") \/ In("decode") -> "encoding_attack"
          [] In("translate") -> "translation_attack"
          [] In("repeat") \/ In("say") -> "output_manipulation"
          [] In("sudo") \/ In("admin") \/ In("override") -> "privilege_escalation"
          [] In("hypothetical") \/ In("imagine") \/ In("scenario") -> "hypothetical_scenario"
          [] In("poem") \/ In("story") \/ In("write") -> "creative_bypass"
          [] Len(text) > 1000 -> "long_payload"
          [] \E k \in 1..Min2(Len(text), 100) : text[k] \in NON_ASCII -> "unicode_obfuscation"
          [] OTHER -> "uncategorized"

\* a sample with what sanitize_text does on its text: the flags it returns,
\* or that it raises
Sample(text, is_injection, dataset, raises, flags) ==
    [text |-> text, is_injection |-> is_injection, dataset |-> dataset,
     raises |-> raises, flags |-> flags]

BENCH_TEXTS == {<<"IGNORE", "all", "PREVIOUS", "words">>, <<"E_ACUTE", "hello">>}

DATASETS == {"deepset", "spml", "jackhhao"}

\* what sanitize_text does on a sample: <<raises, flags>>
OUTCOMES == {<<FALSE, <<>> >>, <<FALSE, <<"role_play", "direct_override">> >>, <<TRUE, <<>> >>}

SAMPLE_KINDS ==
    {Sample(t, inj, ds, o[1], o[2]) :
        t \in BENCH_TEXTS, inj \in BOOLEAN, ds \in DATASETS, o \in OUTCOMES}

\* the sample at (0-based) index i of the list
SampleAt(i) == samples[(i % 2) + 1]

\* try: _, flags, _ = sanitize_text(text)  except Exception: flags = []
flags_of_raise_detected(sample) ==
    IF sample.raises THEN <<"error">> ELSE sample.flags

flags_of(sample) == IF sample.raises THEN <<>> ELSE sample.flags

ZeroCounts == [tp |-> 0, fp |-> 0, tn |-> 0, fn |-> 0]

\* d[k] += 1 on a defaultdict(int)
Inc(d, k) == IF k \in DOMAIN d THEN [d EXCEPT ![k] = @ + 1] ELSE d @@ (k :> 1)

\* by_dataset[ds][c] += 1 on a defaultdict of zeroed counters
IncDataset(d, ds, c) ==
    IF ds \in DOMAIN d
    THEN [d EXCEPT ![ds][c] = @ + 1]
    ELSE d @@ (ds :> [ZeroCounts EXCEPT ![c] = 1])

\* for f in flags: d[f] += 1
IncAll(d, flags) ==
    LET seen == Range(flags) \cup DOMAIN d
        Times(f) == Cardinality({k \in 1..Len(flags) : flags[k] = f})
    IN  [f \in seen |-> (IF f \in DOMAIN d THEN d[f] ELSE 0) + Times(f)]

EmptyDict == [k \in {} |-> 0]

InitResults ==
    [tp |-> 0, fp |-> 0, tn |-> 0, fn |-> 0,
     by_dataset |-> EmptyDict,
     missed_categories |-> EmptyDict,
     missed_examples |-> <<>>,
     false_positive_flags |-> EmptyDict]

\* the body of the loop for sample i (0-based).  Left out: total_time (wall
\* clock) and the first_20_chars_hash of a missed example (Python's string
\* hash is salted per process), which no counter depends on.
process_sample(res, i, sample) ==
    LET flags    == flags_of(sample)
        detected == Len(flags) > 0
        cat      == categorize_missed(sample.text)
    IN  IF sample.is_injection /\ detected
        THEN [res EXCEPT !.tp = @ + 1,
                         !.by_dataset = IncDataset(@, sample.dataset, "tp")]
        ELSE IF sample.is_injection /\ ~detected
        THEN [res EXCEPT !.fn = @ + 1,
                         !.by_dataset = IncDataset(@, sample.dataset, "fn"),
                         !.missed_categories = Inc(@, cat),
                         !.missed_examples =
                             IF Len(@) < MISSED_EXAMPLES_CAP
                             THEN Append(@, [index |-> i, dataset |-> sample.dataset,
                                             category |-> cat,
                                             text_length |-> Len(sample.text)])
                             ELSE @]
        ELSE IF ~sample.is_injection /\ detected
        THEN [res EXCEPT !.fp = @ + 1,
                         !.by_dataset = IncDataset(@, sample.dataset, "fp"),
                         !.false_positive_flags = IncAll(@, flags)]
        ELSE [res EXCEPT !.tn = @ + 1,
                         !.by_dataset = IncDataset(@, sample.dataset, "tn")]

\* one iteration of `for i, sample in enumerate(samples)`
BenchStep ==
    /\ bpc = "loop" /\ bi < NumSamples
    /\ results' = process_sample(results, bi, SampleAt(bi))
    /\ bi' = bi + 1
    /\ UNCHANGED <<samples, bpc, emailVars, cliVars>>

\* the list is exhausted: return results
BenchReturn ==
    /\ bpc = "loop" /\ bi = NumSamples
    /\ bpc' = "done"
    /\ UNCHANGED <<samples, bi, results, emailVars, cliVars>>

\* the samples alternate between two kinds
InitBench ==
    /\ samples \in [1..2 -> SAMPLE_KINDS]
    /\ bpc = "loop" /\ bi = 0 /\ results = InitResults
    /\ email_data = Scalar /\ call_det = NoDet /\ call_ret = NoRet
    /\ CliIdle

NextBench == BenchStep \/ BenchReturn

SpecBench == InitBench /\ [][NextBench]_vars

----------------------------------------------------------------------------
(* Properties of sanitize_email *)

Returned == call_ret.status = "ok"

RawOf(key) == get_str(email_data, key)

\* what the body pipeline returned in the call
BodyResult == sanitize_text(RawOf("body"), MAX_BODY_LENGTH, call_det.body)

FirstIndex(xs, x) == MinOf({i \in 1..Len(xs) : xs[i] = x})

\* C1: exposure cap.  For a sender that does not classify as known, the
\* returned body_clean is the part of the cleaned body before its first
\* newline, cut to 200 characters, and empty when the cleaned body is empty:
\* a newline-free prefix of the cleaned body of at most 200 characters that
\* stops only at the cap, at a newline or at the end, whatever the flags.
C1_ExposureCap ==
    (Returned /\ call_ret.sender_tier # "known") =>
        LET cleaned == BodyResult[1]
            out     == call_ret.body_clean
            n       == Len(out)
        IN  /\ n <= 200
            /\ n <= Len(cleaned)
            /\ \A i \in 1..n : out[i] = cleaned[i] /\ out[i] # "NL"
            /\ (n = 200 \/ n = Len(cleaned) \/ cleaned[n + 1] = "NL")
            /\ (cleaned = <<>> => out = <<>>)

\* an unknown sender's body whose first line is longer than the cap and is
\* followed by a second line, with a flag raised, was cut to the cap
C1_Witness ==
    /\ Returned
    /\ call_ret.sender_tier = "unknown"
    /\ call_ret.flags # <<>>
    /\ "NL" \in Range(BodyResult[1])
    /\ FirstIndex(BodyResult[1], "NL") > 201
    /\ Len(call_ret.body_clean) = 200

\* C2: trust independence.  sender_tier and summary_level are those of the
\* envelope that has the same sender value and nothing else, so two envelopes
\* with the same sender agree on both whatever their subject, body, date and
\* flags are; the tier is classify_sender of a value made from the raw sender.
C2_TrustIndependence ==
    Returned =>
        LET alone == sanitize_email(
                        Envelope(email_data.obj["sender"], Absent, Absent, Absent), NoDet)
        IN  /\ call_ret.sender_tier = alone.sender_tier
            /\ call_ret.summary_level = alone.summary_level
            /\ call_ret.sender_tier = classify_sender(sender_light(RawOf("sender")))

\* an unknown sender stays unknown with a known address in the subject and
\* flags raised on subject, body and cross-field
C2_Witness ==
    /\ Returned
    /\ RawOf("subject") \in KNOWN_SENDERS
    /\ call_det.subject # <<>> /\ call_det.body # <<>> /\ call_det.cross # <<>>
    /\ RawOf("sender") = <<"u">>
    /\ call_ret.sender_tier = "unknown"
    /\ call_ret.summary_level = "minimal"

\* C4: flag order and de-duplication.  The returned flags hold no identifier
\* twice, hold exactly the identifiers of the subject, body and cross-field
\* lists, and order them by first occurrence in subject + body + cross.
C4_FlagOrderDedup ==
    Returned =>
        LET cat == call_det.subject \o call_det.body \o call_det.cross
            fl  == call_ret.flags
        IN  /\ \A i, j \in 1..Len(fl) : i # j => fl[i] # fl[j]
            /\ Range(fl) = Range(cat)
            /\ \A i, j \in 1..Len(fl) :
                  i < j => FirstIndex(cat, fl[i]) < FirstIndex(cat, fl[j])

\* the subject list repeats a flag, the body list overlaps it and brings a
\* second one, the cross-field list repeats both: two flags are returned
C4_Witness ==
    /\ Returned
    /\ call_det.subject = <<"role_play", "role_play">>
    /\ call_det.body = <<"role_play", "direct_override">>
    /\ call_det.cross = <<"direct_override", "role_play">>
    /\ call_ret.flags = <<"role_play", "direct_override">>

\* all orders in which the three light stages can be composed
LightOrders(raw) ==
    {normalize_unicode(remove_invisible_unicode(strip_html(raw))),
     remove_invisible_unicode(normalize_unicode(strip_html(raw))),
     normalize_unicode(strip_html(remove_invisible_unicode(raw))),
     remove_invisible_unicode(strip_html(normalize_unicode(raw))),
     strip_html(normalize_unicode(remove_invisible_unicode(raw))),
     strip_html(remove_invisible_unicode(normalize_unicode(raw)))}

C6_SuspiciousIffFlags ==
    Returned =>
        /\ call_ret.suspicious = (call_ret.flags # <<>>)
        /\ call_ret.suspicious =
              (call_det.subject \o call_det.body \o call_det.cross # <<>>)

\* a single cross-field flag, none on subject or body, makes the envelope
\* suspicious
C6_Witness ==
    /\ Returned
    /\ call_det.subject = <<>> /\ call_det.body = <<>>
    /\ Len(call_det.cross) = 1
    /\ call_ret.suspicious

\* C7: truncated is true exactly when body_length_original, the original
\* length the body pipeline reports for the raw body, is greater than
\* MAX_BODY_LENGTH, for known and unknown senders alike.
C7_TruncatedIffLong ==
    Returned =>
        /\ call_ret.body_length_original = BodyResult[3]
        /\ call_ret.truncated = (call_ret.body_length_original > MAX_BODY_LENGTH)

\* an unknown sender's body one character over the maximum, under a short
\* subject, is reported truncated although its preview is short
C7_Witness ==
    /\ Returned
    /\ call_ret.sender_tier = "unknown"
    /\ Len(RawOf("subject")) <= MAX_BODY_LENGTH
    /\ Len(RawOf("body")) = MAX_BODY_LENGTH + 1
    /\ Len(call_ret.body_clean) <= 200
    /\ call_ret.truncated

\* C9: stage ordering on the sender.  Invisible-character removal and Unicode
\* normalization come before HTML stripping, so the returned sender is the
\* canonical form of the raw sender with its tags stripped.
C9_NormalizeBeforeStrip ==
    Returned =>
        call_ret.sender =
            strip_html(normalize_unicode(remove_invisible_unicode(RawOf("sender"))))

----------------------------------------------------------------------------
(* Properties of main and sanitize_emails *)

NoDetectorRaised == \A k \in 1..Len(dets) : dets[k].fault = "none"

\* C8: CLI outcome.  On input that is not valid JSON or whose top level is
\* neither an object nor an array, an error object goes to standard error,
\* nothing to standard output, and the exit status is non-zero; on an object
\* or an array, whatever its elements, the result goes to standard output as
\* indented JSON and the exit status is zero.  (Stated for the runs in which
\* no detector raised.)
C8_CliOutcome ==
    (pc = "exit" /\ NoDetectorRaised) =>
        IF stdin.kind \in {"invalid", "scalar"}
        THEN /\ Len(stderr) = 1 /\ stderr[1].kind = "error_object"
             /\ stdout = <<>>
             /\ exit_status # 0
        ELSE /\ stdout = <<[indent |-> 2, value |-> result]>>
             /\ stderr = <<>>
             /\ exit_status = 0

\* C3: error isolation.  A failure while sanitizing one email does not leave
\* sanitize_email or sanitize_emails: for an object or an array on standard
\* input main ends with a result, an envelope for the object and one
\* envelope per element for the array.
C3_ErrorIsolation ==
    (pc = "exit" /\ stdin.kind \in {"object", "array"}) =>
        /\ \A k \in 1..Len(stderr) : stderr[k].kind # "traceback"
        /\ exit_status = 0
        /\ stdin.kind = "object" => result.status = "ok"
        /\ stdin.kind = "array" =>
              /\ Len(result) = Len(stdin.items)
              /\ \A k \in 1..Len(result) : result[k].status = "ok"

----------------------------------------------------------------------------
(* Properties of run_benchmark *)

RECURSIVE SumOver(_, _)
SumOver(d, c) ==
    IF DOMAIN d = {} THEN 0
    ELSE LET k == CHOOSE x \in DOMAIN d : TRUE
         IN  d[k][c] + SumOver([x \in DOMAIN d \ {k} |-> d[x]], c)

RECURSIVE SumDict(_)
SumDict(d) ==
    IF DOMAIN d = {} THEN 0
    ELSE LET k == CHOOSE x \in DOMAIN d : TRUE
         IN  d[k] + SumDict([x \in DOMAIN d \ {k} |-> d[x]])

\* the counter a sample belongs to: by is_injection and whether the
\* sanitizer returned at least one flag, an exception being no flag
CounterOf(sample) ==
    LET detected == ~sample.raises /\ sample.flags # <<>>
    IN  CASE sample.is_injection /\ detected   -> "tp"
          [] sample.is_injection /\ ~detected  -> "fn"
          [] ~sample.is_injection /\ detected  -> "fp"
          [] OTHER                             -> "tn"

\* how many of the first n samples belong to counter c
Expected(c, n) ==
    (IF CounterOf(samples[1]) = c THEN (n + 1) \div 2 ELSE 0)
    + (IF CounterOf(samples[2]) = c THEN n \div 2 ELSE 0)

\* C10: benchmark accounting.  After any prefix of n samples every sample
\* has been counted in exactly one of tp, fp, tn, fn, the one (is_injection,
\* at least one flag) selects, an exception counting as no flag; so the four
\* add up to n, each equals its sum over by_dataset, the missed_categories
\* add up to fn, and missed_examples holds min(fn, 500) entries.
C10_BenchmarkAccounting ==
    bpc \in {"loop", "done"} =>
        /\ \A c \in {"tp", "fp", "tn", "fn"} :
              /\ results[c] = Expected(c, bi)
              /\ results[c] = SumOver(results.by_dataset, c)
        /\ results.tp + results.fp + results.tn + results.fn = bi
        /\ SumDict(results.missed_categories) = results.fn
        /\ Len(results.missed_examples) = Min2(results.fn, 500)

\* more than 500 injections were missed, some because the sanitizer raised,
\* in two datasets: the examples stopped at 500
C10_Witness ==
    /\ bpc = "done"
    /\ results.fn > 500
    /\ Len(results.missed_examples) = 500
    /\ samples[1].raises /\ ~samples[2].raises
    /\ Cardinality(DOMAIN results.by_dataset) = 2
    /\ Cardinality(DOMAIN results.missed_categories) = 2

====
